---- MODULE Spec2Model ----
(***************************************************************************)
(* Model of the RagMetrics instrumentation engine: the instrumentation     *)
(* client (login state, client-level metadata, conversation identifier),   *)
(* the interceptors installed around LLM client methods, the integration   *)
(* registry used by monitor(), and the trace transmitter (_log_trace).     *)
(*                                                                         *)
(* One wrapped call is one action: the operator Invoke runs the stack of   *)
(* interceptors installed on a target, down to the original delegate, and  *)
(* returns what the caller observes together with everything that happened *)
(* on the way (delegate invocations, extractor and callback runs, network  *)
(* requests, the order of these events).                                   *)
(***************************************************************************)
EXTENDS Integers, Sequences, FiniteSets, TLC

\* ---------------------------------------------------------------- bounds
\* interceptors stacked on one target
MaxWrap == 2
\* fresh conversation identifiers generated before the model stops calling
MaxConv == 3
\* trace processors registered before the model stops registering
MaxProcessors == 2
\* progress polls of one Experiment.run before the model stops polling
MaxPolls == 6

\* ------------------------------------------------------------ vocabulary
\* The install sites.  Each names the object whose attribute is replaced
\* and the installer that replaces it.
Targets ==
    { "openai_completions",   \* wrap_openai_chat_completions_create, instance
      "runnable_instance",    \* wrap_langchain_invoke on one instance
      "runnable_class",       \* wrap_langchain_invoke on a class
      "litellm_completion",   \* wrap_litellm_completion, free function
      "litellm_acompletion",  \* wrap_litellm_acompletion, free async function
      "legacy_completions" }  \* patch_openai_client (openai_chat_wrapper.py)

\* instrumentation-only call parameters
RM_KEYS == {"metadata", "contexts", "expected", "force_new_conversation"}

EmptyMap == [k \in {} |-> 0]

\* dict merge {**f, **g}: g wins on every key collision
Merge(f, g) ==
    [k \in (DOMAIN f) \cup (DOMAIN g) |-> IF k \in DOMAIN g THEN g[k] ELSE f[k]]

\* the value None / "no value"
NoneVal == [isNone |-> TRUE, args |-> <<>>, keys |-> {}]

\* what the original delegate returns: a value determined by (and
\* determining) everything it was called with
Ret(args, keys) == [isNone |-> FALSE, args |-> args, keys |-> keys]

Returned(v) == [kind |-> "return", val |-> v, exc |-> "none"]
Raised(x) == [kind |-> "raise", val |-> NoneVal, exc |-> x]

VARIABLES
    logging_off,      \* RagMetricsClient.logging_off
    access_token,     \* RagMetricsClient.access_token is set
    metadata,         \* RagMetricsClient.metadata (None is the empty map)
    conversation_id,  \* RagMetricsClient.conversation_id (fresh = next number)
    target,           \* the install site the model follows (fixed)
    wrapped,          \* the interceptors stacked on the target, innermost
                      \* first: for each, whether it was given a callback
    last,             \* what the last operation did and what its caller saw
    calls,            \* the _log_trace calls in flight, one per thread
    trace_processors, \* how many RagMetricsTraceProcessor objects the agents
                      \* tracing system holds
    trace,            \* the Trace object the program works on
    polling           \* the progress loop of Experiment.run

vars == <<logging_off, access_token, metadata, conversation_id, target,
          wrapped, last, calls, trace_processors, trace, polling>>

\* ------------------------------------------------------- trace transmitter
\* The shapes of input_messages.  A list of one message: user1 (role user),
\* assistant1, tool1, system1 (these roles), toolcallid1, toolcalls1 (role
\* user with a non-empty tool_call_id / tool_calls), toolcallsempty1 (role
\* user with tool_calls = []), decorated1 (the message trace_function_call
\* builds: role user with the key "tool_call").  Otherwise: multi (a list
\* of several messages), str (a string), or anything else (an object, None).
SingleMessageShapes ==
    {"user1", "assistant1", "tool1", "system1", "toolcallid1", "toolcalls1",
     "toolcallsempty1", "decorated1"}

\* is_continuation that looks at the role only (mutant)
is_continuation_roles_only(first_message) ==
    first_message \in {"assistant1", "tool1", "system1"}

\* is_continuation of _log_trace: first_message.get("tool_call_id") or
\* first_message.get("tool_calls") or role in ["assistant", "tool", "system"]
is_continuation(first_message) ==
    first_message \in {"toolcallid1", "toolcalls1", "assistant1", "tool1", "system1"}

\* is_likely_new_interaction without the string case (mutant)
is_likely_new_interaction_lists_only(input_messages) ==
    input_messages \in SingleMessageShapes /\ ~is_continuation(input_messages)

\* is_likely_new_interaction of _log_trace's heuristic
is_likely_new_interaction(input_messages) ==
    \/ input_messages \in SingleMessageShapes /\ ~is_continuation(input_messages)
    \/ input_messages = "str"

\* the decision with the explicit identifier tested before the force flag
\* (mutant)
starts_new_conversation_explicit_first(p) ==
    p.conversation_id = 0 /\ (p.force \/ is_likely_new_interaction(p.input))

\* _log_trace calls self.new_conversation(): force_new_conversation, or no
\* explicit conversation_id (0 stands for None) and the heuristic says new
starts_new_conversation(p) ==
    p.force \/ (p.conversation_id = 0 /\ is_likely_new_interaction(p.input))

\* the identifier of the trace taken from the client in every case (mutant)
current_trace_conversation_id_of_client(p, client_conversation_id) ==
    client_conversation_id

\* current_trace_conversation_id of _log_trace, given the client's
\* identifier after the decision above
current_trace_conversation_id(p, client_conversation_id) ==
    IF ~p.force /\ p.conversation_id # 0 THEN p.conversation_id
    ELSE client_conversation_id

\* _log_trace's guard without the credential test (mutant)
_log_trace_skips_off_only(e) == e.off

\* The guard at the head of RagMetricsClient._log_trace: the trace is
\* skipped, and None returned, when logging is off or no token is set.
_log_trace_skips(e) == e.off \/ ~e.token

\* _make_request that sends a failed request a second time (mutant)
_make_request_retry(e, r, payload) ==
    [r EXCEPT !.traces = IF e.netFail THEN @ \o <<payload, payload>> ELSE Append(@, payload),
              !.events = IF e.netFail THEN @ \o <<"request", "request">> ELSE Append(@, "request"),
              !.lt = IF e.netFail THEN "RagMetricsAPIError" ELSE "data"]

\* RagMetricsClient._make_request for the logtrace endpoint: one request;
\* the server's answer, or RagMetricsAPIError when the request fails.
_make_request(e, r, payload) ==
    [r EXCEPT !.traces = Append(@, payload),
              !.events = Append(@, "request"),
              !.lt = IF e.netFail THEN "RagMetricsAPIError" ELSE "data"]

\* RagMetricsClient._log_trace.  e is the client and the environment of the
\* call, r the run so far, p the keyword arguments.  The result is the run
\* with the request (if any) appended and lt set to what _log_trace did:
\* "None" (returned None without a request), "data" (the server's answer)
\* or "RagMetricsAPIError" (the request failed and _make_request raised).
_log_trace(e, r, p) ==
    IF _log_trace_skips(e)
    THEN [r EXCEPT !.lt = "None"]
    ELSE LET conv1 == IF starts_new_conversation(p) THEN r.conv + 1 ELSE r.conv
             payload ==
                 [ input |-> p.input, error |-> p.error,
                   metadata |-> Merge(e.meta, p.metadata_llm),
                   contexts |-> p.contexts, expected |-> p.expected,
                   canonical |-> p.callback_result,
                   conversation_id |-> current_trace_conversation_id(p, conv1) ]
         IN  _make_request(e, [r EXCEPT !.conv = conv1], payload)

\* the keyword arguments of a _log_trace call
LogArgs(input, error, metadata_llm, contexts, expected, callback_result, force) ==
    [ input |-> input, error |-> error, metadata_llm |-> metadata_llm,
      contexts |-> contexts, expected |-> expected,
      callback_result |-> callback_result, conversation_id |-> 0, force |-> force ]

\* the run of an operation before anything happened
NewRun(conv) ==
    [ out |-> Returned(NoneVal), events |-> <<>>, dcalls |-> <<>>,
      traces |-> <<>>, acts |-> <<>>, conv |-> conv, lt |-> "None" ]

\* ------------------------------------------------------------- extractors
LangchainTargets == {"runnable_instance", "runnable_class"}

\* wrapper_utils._pop_ragmetrics_kwargs: the keyword arguments left after
\* the four instrumentation-only parameters are popped
_pop_ragmetrics_kwargs(kw) ==
    [kw EXCEPT !.keys = @ \ RM_KEYS, !.meta = EmptyMap]

\* _langchain_input_extractor / _litellm_input_extractor
input_extractor(t, args, kw) ==
    IF t \in LangchainTargets
    THEN IF args # <<>> THEN args[1] ELSE "none"
    ELSE IF "messages" \in kw.keys THEN kw.input ELSE "none"

\* additional_llm_metadata of _langchain_dynamic_llm_details_extractor and
\* _litellm_dynamic_llm_details_extractor
dynamic_llm_details_extractor(t, kw) ==
    IF t \in LangchainTargets
    THEN IF "config" \in kw.keys THEN [k \in {"langchain_config"} |-> 2] ELSE EmptyMap
    ELSE [k \in kw.keys \cap {"temperature", "max_tokens", "stream", "user"} |-> 2]

\* final_metadata_for_log of wrapper_utils._extract_final_log_parameters
_extract_final_log_parameters(rm_client_metadata, additional_llm_metadata, user_call_metadata) ==
    Merge(Merge(rm_client_metadata, additional_llm_metadata), user_call_metadata)

\* _execute_callback without its try block: the callback's exception
\* becomes the outcome of the call (mutant)
_execute_callback_unguarded(hasCallback, e, r) ==
    IF hasCallback
    THEN [run |-> [r EXCEPT !.events = Append(@, "callback"),
                            !.out = IF e.cbRaises THEN Raised("CallbackError") ELSE @],
          cb |-> IF e.cbRaises THEN "none" ELSE "dict"]
    ELSE [run |-> r, cb |-> "none"]

\* wrapper_utils._execute_callback: the run after the callback, and its
\* result through field cb ("dict" when the callback returned its mapping)
_execute_callback(hasCallback, e, r) ==
    IF hasCallback
    THEN [run |-> [r EXCEPT !.events = Append(@, "callback")],
          cb |-> IF e.cbRaises THEN "none" ELSE "dict"]
    ELSE [run |-> r, cb |-> "none"]

\* output_extractor(result) raises.  It is called only when the original
\* returned (error_obj is None).  _litellm_output_extractor reads
\* result.choices[0].message and the attributes id, type and function of
\* every tool call, and raises AttributeError on a result built otherwise;
\* _langchain_output_extractor returns the result and cannot raise.
output_extractor_raises(t, e, r) ==
    /\ t \in {"litellm_completion", "litellm_acompletion"}
    /\ r.out.kind = "return"
    /\ e.exRaises

\* the original method of the wrapped library
original_method(args, kw, e, r) ==
    [r EXCEPT !.dcalls = Append(@, [args |-> args, keys |-> kw.keys]),
              !.events = Append(@, "original"),
              !.out = IF e.raises THEN Raised("E") ELSE Returned(Ret(args, kw.keys))]

\* ------------------------------------------------------------ binding
\* Does the target's method take a receiver?
HasReceiver(t) == t \notin {"litellm_completion", "litellm_acompletion"}

\* The positional arguments the unwrapped original receives for a call
\* with positional arguments A.
Received(t, A) == IF HasReceiver(t) THEN <<"self">> \o A ELSE A

\* Callable number d of a target is its original method (d = 0) or the
\* d-th interceptor installed on it.  CapturedBound: the value an installer
\* reads with getattr(target, name), and keeps as original_method, is a
\* bound method, so that calling it passes the receiver by itself.  The
\* original read from an instance is bound; so is an interceptor that was
\* installed with types.MethodType (wrap_langchain_invoke on an instance).
\* patch_openai_client reads the original from the type: a plain function.
CapturedBound(t, d) ==
    IF d = 0 THEN t \in {"openai_completions", "runnable_instance"}
    ELSE t = "runnable_instance"

\* TopBound: the caller's lookup client.method yields a bound method.
TopBound(t, d) ==
    CASE t = "runnable_class" -> TRUE
      [] t = "legacy_completions" -> TRUE
      [] t \in {"litellm_completion", "litellm_acompletion"} -> FALSE
      [] OTHER -> CapturedBound(t, d)

Bind(bound, args) == IF bound THEN <<"self">> \o args ELSE args

CtxOf(kw) == IF "contexts" \in kw.keys THEN "ctx" ELSE "none"
ExpOf(kw) == IF "expected" \in kw.keys THEN "exp" ELSE "none"
ErrOf(run) == IF run.out.kind = "raise" THEN run.out.exc ELSE "none"
Exit(run) == [run EXCEPT !.events = Append(@, run.out.kind)]

\* ------------------------------------------------------------ interceptors
RECURSIVE Invoke(_, _, _, _, _, _, _)

\* original_method(...) as called from inside interceptor d
CallOriginal(t, ws, d, args, kw, e, r) ==
    Invoke(t, ws, d - 1, Bind(CapturedBound(t, d - 1), args), kw, e, r)

\* wrapper_utils.create_sync_wrapper.wrapper and create_async_wrapper.wrapper
create_sync_wrapper(t, ws, d, args, kw, e, r) ==
    IF e.off
    THEN LET r0 == CallOriginal(t, ws, d, args, kw, e, r)
         IN  Exit([r0 EXCEPT !.acts = Append(@, 0)])
    ELSE LET kwargs == _pop_ragmetrics_kwargs(kw)
             log_input == input_extractor(t, args, kwargs)
             dynamic_details == dynamic_llm_details_extractor(t, kwargs)
             r1 == [r EXCEPT !.events = @ \o <<"input_extractor", "dynamic_extractor">>]
             r2 == CallOriginal(t, ws, d, args, kwargs, e, r1)
             r3 == IF r2.out.kind = "raise" THEN r2
                   ELSE [r2 EXCEPT !.events = Append(@, "output_extractor")]
             final_metadata_for_log ==
                 _extract_final_log_parameters(e.meta, dynamic_details, kw.meta)
             cbr == _execute_callback(ws[d], e, r3)
             r5 == _log_trace(e, cbr.run,
                       LogArgs(log_input, ErrOf(r2), final_metadata_for_log,
                               CtxOf(kw), ExpOf(kw), cbr.cb,
                               "force_new_conversation" \in kw.keys))
         IN  IF output_extractor_raises(t, e, r2)
             THEN \* output_extractor(result) is called outside any try block
                  Exit([r3 EXCEPT !.out = Raised("AttributeError"), !.acts = Append(@, 0)])
             ELSE Exit([r5 EXCEPT !.acts = Append(@, Len(r5.traces) - Len(cbr.run.traces))])

\* client_integrations.openai_chat_wrapper: create_wrapper
create_wrapper(t, ws, d, args, kw, e, r) ==
    LET openai_kwargs == _pop_ragmetrics_kwargs(kw)
        messages == IF "messages" \in kw.keys THEN kw.input ELSE "empty"
        r2 == CallOriginal(t, ws, d, args, openai_kwargs, e, r)
    IN  IF r2.out.kind = "raise"
        THEN \* except: raise; finally: "if error is not None and 'response'
             \* not in locals(): return" -- the return discards the exception
             Exit([r2 EXCEPT !.out = Returned(NoneVal), !.acts = Append(@, 0)])
        ELSE LET cbr == _execute_callback(ws[d], e, r2)
                 r5 == _log_trace(e, cbr.run,
                           LogArgs(messages, "none", kw.meta, CtxOf(kw), ExpOf(kw),
                                   cbr.cb, "force_new_conversation" \in kw.keys))
                 r6 == [r5 EXCEPT !.acts = Append(@, Len(r5.traces) - Len(cbr.run.traces))]
             IN  \* _log_trace is called in the finally block, unguarded
                 IF r5.lt = "RagMetricsAPIError"
                 THEN Exit([r6 EXCEPT !.out = Raised("RagMetricsAPIError")])
                 ELSE Exit(r6)

\* litellm_wrapper.wrap_litellm_completion.wrapper
litellm_wrapper(t, ws, d, args, kw, e, r) ==
    IF e.off
    THEN LET r0 == CallOriginal(t, ws, d, args, kw, e, r)
         IN  Exit([r0 EXCEPT !.acts = Append(@, 0)])
    ELSE LET kwargs == _pop_ragmetrics_kwargs(kw)
             log_input == input_extractor(t, args, kwargs)
             r1 == [r EXCEPT !.events = Append(@, "input_extractor")]
             r2 == CallOriginal(t, ws, d, args, kwargs, e, r1)
             r3 == IF r2.out.kind = "raise" THEN r2
                   ELSE [r2 EXCEPT !.events = Append(@, "output_extractor")]
             \* "dynamic metadata from the call - DISABLED FOR LITELLM"
             final_metadata == e.meta
             cbr == _execute_callback(ws[d], e, r3)
             r5 == _log_trace(e, cbr.run,
                       LogArgs(log_input, ErrOf(r2), final_metadata,
                               CtxOf(kw), ExpOf(kw), cbr.cb,
                               "force_new_conversation" \in kw.keys))
         IN  IF output_extractor_raises(t, e, r2)
             THEN \* _litellm_output_extractor(result) is called outside any try block
                  Exit([r3 EXCEPT !.out = Raised("AttributeError"), !.acts = Append(@, 0)])
             ELSE Exit([r5 EXCEPT !.acts = Append(@, Len(r5.traces) - Len(cbr.run.traces))])

\* ragmetrics/openai_chat_wrapper.py: create_wrapper.wrapper, installed by
\* patch_openai_client.  Only contexts and expected are removed; on any
\* exception inside the try block the original is called again with the
\* caller's keyword arguments.
legacy_wrapper(t, ws, d, args, kw, e, r) ==
    LET kwargs_copy == [kw EXCEPT !.keys = @ \ {"contexts", "expected"}]
        input_messages == IF "messages" \in kw.keys THEN kw.input ELSE "none"
        r2 == CallOriginal(t, ws, d, args, kwargs_copy, e, r)
        r3 == [r2 EXCEPT !.events = Append(@, "callback")]
        r5 == _log_trace(e, r3,
                  LogArgs(input_messages, "none", kw.meta, CtxOf(kw), ExpOf(kw),
                          "dict", FALSE))
        r6 == [r5 EXCEPT !.acts = Append(@, Len(r5.traces) - Len(r3.traces))]
    IN  IF r2.out.kind = "raise"
        THEN Exit(CallOriginal(t, ws, d, args, kw, e, [r2 EXCEPT !.acts = Append(@, 0)]))
        ELSE IF r5.lt = "RagMetricsAPIError"
        THEN Exit(CallOriginal(t, ws, d, args, kw, e, r6))
        ELSE Exit(r6)

\* Calling callable d of target t with (already bound) positional
\* arguments args and keyword arguments kw.
Invoke(t, ws, d, args, kw, e, r) ==
    IF d = 0 THEN original_method(args, kw, e, r)
    ELSE CASE t = "openai_completions" -> create_wrapper(t, ws, d, args, kw, e, r)
           [] t = "litellm_completion" -> litellm_wrapper(t, ws, d, args, kw, e, r)
           [] t = "legacy_completions" -> legacy_wrapper(t, ws, d, args, kw, e, r)
           [] OTHER -> create_sync_wrapper(t, ws, d, args, kw, e, r)

\* ---------------------------------------------------------------- inputs
\* the client objects a program hands to monitor() or to an installer
Clients == {"openai", "runnable_instance", "runnable_class", "litellm", "legacy_openai"}

ClientOf(t) ==
    CASE t = "openai_completions" -> "openai"
      [] t = "legacy_completions" -> "legacy_openai"
      [] t \in {"litellm_completion", "litellm_acompletion"} -> "litellm"
      [] OTHER -> t

\* metadata passed to monitor(): none, or a mapping (values of the client
\* layer are 1, of the dynamic layer 2, of the call layer 3)
MonitorMetadata == {EmptyMap, [k \in {"app", "temperature"} |-> 1]}
CallMetadata == {[k \in {"user", "run"} |-> 3]}

\* the instrumentation-only parameters a call passes
RmChoices == {{}, {"metadata", "contexts", "expected"}, RM_KEYS}

\* the other keyword parameters a call passes
LlmChoices(t) ==
    IF t \in LangchainTargets THEN {{}, {"config"}} ELSE {{}, {"temperature", "user"}}

\* the shapes of the input of a wrapped call
InputShapes == {"user1", "multi"}

\* the shapes of the input of a direct _log_trace call
AllShapes == SingleMessageShapes \cup {"multi", "str"}

NoKw == [keys |-> {}, meta |-> EmptyMap, input |-> "none"]
NoLogArgs == LogArgs("none", "none", EmptyMap, "none", "none", "none", FALSE)

\* the keyword arguments of a wrapped call on target t
Kwargs(t, rm, llm, cm, shape) ==
    [ keys |-> rm \cup llm \cup (IF t \in LangchainTargets THEN {} ELSE {"messages"}),
      meta |-> IF "metadata" \in rm THEN cm ELSE EmptyMap,
      input |-> shape ]

\* the positional arguments of a wrapped call on target t, receiver excluded
Positional(t, shape) == IF t \in LangchainTargets THEN <<shape>> ELSE <<>>

Env(raises, cbRaises, netFail, exRaises) ==
    [ off |-> logging_off, token |-> access_token, meta |-> metadata,
      conv |-> conversation_id,
      raises |-> raises, cbRaises |-> cbRaises, netFail |-> netFail,
      exRaises |-> exRaises ]

Op(op, t, depth, args, kw, e, p, run) ==
    [ op |-> op, t |-> t, depth |-> depth, args |-> args, kw |-> kw, e |-> e,
      p |-> p, run |-> run ]

\* the kinds of fault a call can meet: the original raises, the user
\* callback raises, the request to the collector fails, the output
\* extractor raises on what the original returned
Faults == {{}, {"original"}, {"callback"}, {"request"}, {"original", "request"},
           {"extractor"}}

\* ------------------------------------------------------------------ state
\* the threads (or tasks) of the program that log traces on the one client
Threads == {"main", "worker"}

\* Experiment.run has not been called.  pc: where run is ("idle", "polling"
\* in the while loop, "returned" the progress data, "failed" with
\* "Experiment failed", "gave_up" with "Failed to connect", "not_started");
\* retry_count: the local of that name; history: what each poll met
NotRunning == [pc |-> "idle", retry_count |-> 0, history |-> <<>>]

\* no Trace object yet: the attributes id and edit_mode do not exist
NoTrace == [id |-> "unset", edit_mode |-> FALSE]

\* a thread that is not inside _log_trace.  pc: where the thread is in
\* _log_trace; p: the arguments of the call; current: its local
\* current_trace_conversation_id; first, final: the client's identifier
\* when the call began and when it sent its payload; sent: the identifier
\* in the payload (0 = none so far)
NoCall == [pc |-> "idle", p |-> NoLogArgs, current |-> 0, first |-> 0, final |-> 0,
           sent |-> 0]

Init ==
    /\ logging_off = FALSE
    /\ access_token = FALSE
    /\ metadata = EmptyMap
    /\ conversation_id = 0
    /\ target \in Targets
    /\ wrapped = <<>>
    /\ last = Op("init", "none", 0, <<>>, NoKw, Env(FALSE, FALSE, FALSE, FALSE), NoLogArgs, NewRun(0))
    /\ calls = [t \in Threads |-> NoCall]
    /\ trace_processors = 0
    /\ trace = NoTrace
    /\ polling = NotRunning

\* RagMetricsClient.login(key, base_url, off).  key: whether a key is given
\* (or found in the environment); server: how the login endpoint answers.
Login(off, key, server) ==
    /\ conversation_id < MaxConv
    /\ LET e == Env(FALSE, FALSE, server # "ok", FALSE)
           asked == IF off THEN "off" ELSE IF key THEN "key" ELSE "nokey"
           done(out) == Op("login", "none", 0, <<asked>>, NoKw, e, NoLogArgs,
                           [NewRun(conversation_id') EXCEPT !.out = out])
       IN  IF off
           THEN /\ logging_off' = TRUE
                /\ access_token' = FALSE
                /\ conversation_id' = conversation_id
                /\ last' = done(Returned(NoneVal))
           ELSE IF ~key
           THEN /\ UNCHANGED <<logging_off, access_token, conversation_id>>
                /\ last' = done(Raised("RagMetricsConfigError"))
           ELSE IF server = "ok"
           THEN /\ access_token' = TRUE
                /\ conversation_id' = conversation_id + 1
                /\ UNCHANGED logging_off
                /\ last' = done(Returned(NoneVal))
           ELSE /\ access_token' = FALSE
                /\ logging_off' = TRUE
                /\ conversation_id' = conversation_id
                /\ last' = done(Raised(CASE server \in {"401", "403"} -> "RagMetricsAuthError"
                                         [] server = "500" -> "RagMetricsAPIError"
                                         [] OTHER -> "RagMetricsError"))
    /\ UNCHANGED <<metadata, target, wrapped, calls, trace_processors, trace, polling>>

\* ------------------------------------------------------ integration registry
\* The wrapper names an integration handler passes to registry.wrapper /
\* registry.combined; these names are the keys of methods_to_wrap and of
\* async_methods_to_wrap.
MethodsToWrap(c) ==
    CASE c = "openai" -> {"openai_chat_completions_create"}
      [] c = "litellm" -> {"litellm_completion", "litellm_acompletion"}
      [] c \in {"runnable_instance", "runnable_class"} -> {"langchain_invoke", "langchain_ainvoke"}
      [] OTHER -> {}

\* The module the import loop reads a wrapper from:
\* from .{wrapper_name.split('_')[0]}_wrapper import wrap_{wrapper_name}
WrapperModule(m) ==
    CASE m \in {"openai_chat_completions_create"} -> "openai_wrapper"
      [] m \in {"litellm_completion", "litellm_acompletion"} -> "litellm_wrapper"
      [] OTHER -> "langchain_wrapper"

\* the wrapper modules of the package client_integrations
ExistingModules ==
    {"langchain_wrapper", "litellm_wrapper", "openai_agent_wrapper",
     "openai_chat_wrapper", "openai_v0_wrapper"}

\* The import succeeded; otherwise wrap_<name> is the dummy returning False.
Imported(m) == WrapperModule(m) \in ExistingModules

\* the attribute names of the target object monitor() resolves for a client
Exposes(c) ==
    CASE c = "openai" -> {"create"}
      [] c = "litellm" -> {"completion", "acompletion"}
      [] c \in {"runnable_instance", "runnable_class"} -> {"invoke", "ainvoke"}
      [] OTHER -> {}

\* the target an installer wraps when monitor() calls it for client c
InstallerTarget(c, m) ==
    CASE m = "openai_chat_completions_create" -> "openai_completions"
      [] m = "litellm_completion" -> "litellm_completion"
      [] m = "litellm_acompletion" -> "litellm_acompletion"
      [] OTHER -> c

\* find_integration(client) returns a descriptor: the client is an OpenAI
\* client, the litellm module, or has invoke / ainvoke.  "unknown" is an
\* object no handler accepts.
find_integration(c) ==
    c \in {"openai", "openai_no_chat", "legacy_openai", "litellm",
           "runnable_instance", "runnable_class"}

\* functools.reduce(getattr, path_parts, client) finds the target object;
\* "openai_no_chat" is an OpenAI client without the attribute chat
target_object_resolves(c) == c # "openai_no_chat"

\* the clients a program passes to monitor(): the client of the target it
\* uses, an object no integration matches, a client whose path fails
MonitorClients == {ClientOf(target), "unknown", "openai_no_chat"}

\* monitor()'s test before it calls the installer registered under key m:
\* hasattr(target_object, method_name), where method_name is the key; the
\* installer then reports success unless it is the dummy.
MonitorWraps(c, m) == m \in Exposes(c) /\ Imported(m)

\* RagMetricsClient.monitor(client, metadata, callback) of api.py, called
\* with the client the target belongs to; callback defaults to
\* default_callback, so an installed interceptor always has one.
Monitor(c, md) ==
    /\ c = ClientOf(target) => target # "legacy_completions"
    /\ LET applied == /\ find_integration(c)
                      /\ target_object_resolves(c)
                      /\ \E m \in MethodsToWrap(c) :
                             MonitorWraps(c, m) /\ InstallerTarget(c, m) = target
       IN  /\ applied => Len(wrapped) < MaxWrap
           /\ wrapped' = IF applied THEN Append(wrapped, TRUE) ELSE wrapped
           /\ last' = Op("monitor", target, Len(wrapped'), <<c>>, NoKw,
                         Env(FALSE, FALSE, FALSE, FALSE), NoLogArgs,
                         [NewRun(conversation_id) EXCEPT !.out = Returned(Ret(<<c>>, {}))])
    /\ metadata' = Merge(metadata, md)
    /\ UNCHANGED <<logging_off, access_token, conversation_id, target, calls, trace_processors,
                   trace, polling>>

\* RagMetricsClient.monitor of client.py, the monitor the package exports:
\* the metadata is updated, then _apply_integration raises ValueError when
\* find_integration found nothing; _wrap_methods tests hasattr(target,
\* method_name) with the registry key as monitor of api.py does.
ClientMonitor(c, md) ==
    /\ c = ClientOf(target) => target # "legacy_completions"
    /\ LET applied == /\ find_integration(c)
                      /\ target_object_resolves(c)
                      /\ \E m \in MethodsToWrap(c) :
                             MonitorWraps(c, m) /\ InstallerTarget(c, m) = target
           out == IF find_integration(c) THEN Returned(Ret(<<c>>, {}))
                  ELSE Raised("ValueError")
       IN  /\ applied => Len(wrapped) < MaxWrap
           /\ wrapped' = IF applied THEN Append(wrapped, TRUE) ELSE wrapped
           /\ last' = Op("client_monitor", target, Len(wrapped'), <<c>>, NoKw,
                         Env(FALSE, FALSE, FALSE, FALSE), NoLogArgs,
                         [NewRun(conversation_id) EXCEPT !.out = out])
    /\ metadata' = Merge(metadata, md)
    /\ UNCHANGED <<logging_off, access_token, conversation_id, target, calls, trace_processors,
                   trace, polling>>

\* An installer called on the target: wrap_openai_chat_completions_create,
\* wrap_langchain_invoke, wrap_litellm_completion, wrap_litellm_acompletion
\* (the interceptor is stacked on whatever the attribute holds) and
\* patch_openai_client (the original is read from the type, so the new
\* interceptor replaces the old one; its callback is default_callback).
\* A repeated installation passes the callback of the first one.
Install(callback) ==
    /\ IF target = "legacy_completions"
       THEN /\ callback
            /\ wrapped' = <<TRUE>>
       ELSE /\ Len(wrapped) < MaxWrap
            /\ wrapped # <<>> => callback = wrapped[1]
            /\ wrapped' = Append(wrapped, callback)
    /\ last' = Op("install", target, Len(wrapped'), <<>>, NoKw, Env(FALSE, FALSE, FALSE, FALSE),
                  NoLogArgs, NewRun(conversation_id))
    /\ UNCHANGED <<logging_off, access_token, metadata, conversation_id, target, calls, trace_processors,
                   trace, polling>>

\* The program calls the method of the target, wrapped or not.
Call(rm, llm, cm, shape, faults) ==
    /\ conversation_id < MaxConv
    /\ LET t == target
           d == Len(wrapped)
           A == Positional(t, shape)
           kw == Kwargs(t, rm, llm, cm, shape)
           e == Env("original" \in faults, "callback" \in faults, "request" \in faults,
                    "extractor" \in faults)
           run == Invoke(t, wrapped, d, Bind(TopBound(t, d), A), kw, e,
                         NewRun(conversation_id))
       IN  /\ conversation_id' = run.conv
           /\ last' = Op("call", t, d, A, kw, e, NoLogArgs, run)
    /\ UNCHANGED <<logging_off, access_token, metadata, target, wrapped, calls, trace_processors,
                   trace, polling>>

\* The program (or trace_function_call) calls _log_trace directly.
LogTrace(shape, force, explicit, netFail) ==
    /\ conversation_id < MaxConv
    /\ LET e == Env(FALSE, FALSE, netFail, FALSE)
           p == [LogArgs(shape, "none", EmptyMap, "none", "none", "dict", force)
                   EXCEPT !.conversation_id = explicit]
           r == _log_trace(e, NewRun(conversation_id), p)
           run == [r EXCEPT !.out = IF r.lt = "RagMetricsAPIError"
                                    THEN Raised("RagMetricsAPIError")
                                    ELSE Returned(NoneVal)]
       IN  /\ conversation_id' = run.conv
           /\ last' = Op("log_trace", "none", 0, <<>>, NoKw, e, p, run)
    /\ UNCHANGED <<logging_off, access_token, metadata, target, wrapped, calls, trace_processors,
                   trace, polling>>

\* decorators.trace_function_call.wrapper around a function func of the
\* program, called by the program.  The decorated function runs first; when
\* logging is off or no token is set its outcome is returned as it is.
\* Otherwise a trace is sent whose input is one user-role message carrying
\* the key "tool_call"; the _log_trace call is not guarded.
TraceFunctionCall(funcRaises, netFail) ==
    /\ conversation_id < MaxConv
    /\ LET e == Env(funcRaises, FALSE, netFail, FALSE)
           p == LogArgs("decorated1", "none",
                        [k \in {"function_name", "decorated_call"} |-> 3],
                        "none", "none", "dict", FALSE)
           r1 == original_method(<<>>, NoKw, e, NewRun(conversation_id))
           r2 == _log_trace(e, r1, p)
           run == IF e.off \/ ~e.token \/ r1.out.kind = "raise" THEN Exit(r1)
                  ELSE IF r2.lt = "RagMetricsAPIError"
                  THEN Exit([r2 EXCEPT !.out = Raised("RagMetricsAPIError")])
                  ELSE Exit(r2)
       IN  /\ conversation_id' = run.conv
           /\ last' = Op("trace_function_call", "none", 0, <<>>, NoKw, e, p, run)
    /\ UNCHANGED <<logging_off, access_token, metadata, target, wrapped, calls, trace_processors,
                   trace, polling>>

\* The program logs in, instruments the target and calls it.
Next ==
    \/ \E off \in BOOLEAN, key \in BOOLEAN, server \in {"ok", "401", "403", "500", "unreachable"} :
          Login(off, key, server)
    \/ \E md \in MonitorMetadata : Monitor(ClientOf(target), md)
    \/ \E callback \in BOOLEAN : Install(callback)
    \/ \E rm \in RmChoices, cm \in CallMetadata, shape \in InputShapes, faults \in Faults :
          \E llm \in LlmChoices(target) : Call(rm, llm, cm, shape, faults)

Spec == Init /\ [][Next]_vars

\* The program logs in, sets client metadata and emits traces itself.
NextTransmitter ==
    \/ \E off \in BOOLEAN, key \in BOOLEAN, server \in {"ok", "401", "403", "500", "unreachable"} :
          Login(off, key, server)
    \/ \E md \in MonitorMetadata : Monitor(ClientOf(target), md)
    \/ \E shape \in AllShapes, force \in BOOLEAN, explicit \in {0, 100}, netFail \in BOOLEAN :
          LogTrace(shape, force, explicit, netFail)

SpecTransmitter == Init /\ [][NextTransmitter]_vars

\* The program logs in, installs an interceptor, calls the target with
\* plain arguments and calls functions decorated with trace_function_call.
NextToolFlow ==
    \/ \E off \in BOOLEAN, key \in BOOLEAN, server \in {"ok", "401", "403", "500", "unreachable"} :
          Login(off, key, server)
    \/ \E callback \in BOOLEAN : Install(callback)
    \/ \E cm \in CallMetadata, shape \in InputShapes : Call({}, {}, cm, shape, {})
    \/ \E funcRaises \in BOOLEAN, netFail \in BOOLEAN : TraceFunctionCall(funcRaises, netFail)

SpecToolFlow == Init /\ [][NextToolFlow]_vars

\* how the server answers a save or download request: with the object and
\* its id, with an object without id, with status 401 / 403 / 500, or not
\* at all (requests raises a connection error)
ObjectServers == {"ok", "noid", "401", "403", "500", "unreachable"}

\* ragmetrics_client._make_request as save and download call it: one
\* request, sent with the Authorization header only if a token is held;
\* the parsed answer, or the typed error of the status.  A connection
\* error is not a RagMetrics error: the caller's except Exception turns it
\* into RagMetricsError.
object_request(r, server, answer) ==
    [r EXCEPT !.events = Append(@, "request"),
              !.out = CASE server \in {"401", "403"} -> Raised("RagMetricsAuthError")
                        [] server = "500" -> Raised("RagMetricsAPIError")
                        [] server = "unreachable" -> Raised("RagMetricsError")
                        [] OTHER -> answer]

\* RagMetricsObject.save().  typed: the class defines object_type;
\* serializes: to_dict() returns.  No test of the access token precedes the
\* request.
Save(typed, serializes, server) ==
    /\ LET r == NewRun(conversation_id)
           args == <<IF typed THEN "typed" ELSE "untyped",
                     IF serializes THEN "serializes" ELSE "to_dict_raises", server>>
           run == IF ~typed THEN [r EXCEPT !.out = Raised("ValueError")]
                  ELSE IF ~serializes THEN [r EXCEPT !.out = Raised("RagMetricsError")]
                  ELSE object_request(r, server,
                           IF server = "noid" THEN Raised("RagMetricsAPIError")
                           ELSE Returned(Ret(<<"self">>, {"id"})))
       IN  last' = Op("save", "none", 0, args, NoKw,
                      Env(FALSE, FALSE, server # "ok", FALSE), NoLogArgs, Exit(run))
    /\ UNCHANGED <<logging_off, access_token, metadata, conversation_id, target, wrapped, calls, trace_processors,
                   trace, polling>>

\* RagMetricsObject.download(id, name).  by: which of id and name is given.
Download(typed, by, server) ==
    /\ LET r == NewRun(conversation_id)
           args == <<IF typed THEN "typed" ELSE "untyped", by, server>>
           run == IF ~access_token THEN [r EXCEPT !.out = Raised("RagMetricsAuthError")]
                  ELSE IF ~typed \/ by = "neither" THEN [r EXCEPT !.out = Raised("ValueError")]
                  ELSE object_request(r, server, Returned(Ret(<<"obj">>, {"id"})))
       IN  last' = Op("download", "none", 0, args, NoKw,
                      Env(FALSE, FALSE, server # "ok", FALSE), NoLogArgs, Exit(run))
    /\ UNCHANGED <<logging_off, access_token, metadata, conversation_id, target, wrapped, calls, trace_processors,
                   trace, polling>>

\* The program logs in, then saves and downloads objects.
NextObject ==
    \/ \E off \in BOOLEAN, key \in BOOLEAN, server \in {"ok", "401", "403", "500", "unreachable"} :
          Login(off, key, server)
    \/ \E typed \in BOOLEAN, serializes \in BOOLEAN, server \in ObjectServers :
          Save(typed, serializes, server)
    \/ \E typed \in BOOLEAN, by \in {"id", "name", "both", "neither"}, server \in ObjectServers :
          Download(typed, by, server)

SpecObject == Init /\ [][NextObject]_vars

\* The program logs in and instruments clients through either monitor.
NextMonitor ==
    \/ \E off \in BOOLEAN, key \in BOOLEAN, server \in {"ok", "401", "403", "500", "unreachable"} :
          Login(off, key, server)
    \/ \E c \in MonitorClients, md \in MonitorMetadata : Monitor(c, md)
    \/ \E c \in MonitorClients, md \in MonitorMetadata : ClientMonitor(c, md)
    \/ \E callback \in BOOLEAN : Install(callback)

SpecMonitor == Init /\ [][NextMonitor]_vars

\* ------------------------------------------------------- registry lookup
\* The values handed to find_handler.  kind: what the value is (an OpenAI /
\* AsyncOpenAI client, the openai or litellm module, an agents Runner, any
\* other object); invoke / ainvoke: whether it has these attributes; openai,
\* agents, litellm: what is importable in the process.  A value of a
\* library's type exists only where the library is importable.
ClientValues ==
    { c \in [ kind : {"OpenAI", "AsyncOpenAI", "openai_module", "litellm_module",
                      "Runner", "object"},
              invoke : BOOLEAN, ainvoke : BOOLEAN,
              openai : {"none", "v0", "v1"}, agents : BOOLEAN, litellm : BOOLEAN ] :
        /\ c.kind \in {"OpenAI", "AsyncOpenAI"} => c.openai = "v1"
        /\ c.kind = "openai_module" => c.openai # "none"
        /\ c.kind = "litellm_module" => c.litellm
        /\ c.kind = "Runner" => c.agents }

\* registry.integrations after the module is imported: the descriptors in
\* the order of the @registry.register decorators
Integrations ==
    << [name |-> "openai_client", client_type |-> "openai.OpenAI",
        target_path |-> "chat.completions"],
       [name |-> "async_openai_client", client_type |-> "openai.AsyncOpenAI",
        target_path |-> "chat.completions"],
       [name |-> "openai_module", client_type |-> "none", target_path |-> "none"],
       [name |-> "litellm_module", client_type |-> "none", target_path |-> "none"],
       [name |-> "openai_agent_runner", client_type |-> "none", target_path |-> "none"],
       [name |-> "langchain_runnable", client_type |-> "none", target_path |-> "none"] >>

\* find_handler's type test: no client_type, or the type is importable (the
\* classes OpenAI and AsyncOpenAI exist in openai v1 only) and the client is
\* an instance of it; otherwise the loop continues
client_type_matches(client_type, c) ==
    CASE client_type = "none" -> TRUE
      [] client_type = "openai.OpenAI" -> c.openai = "v1" /\ c.kind = "OpenAI"
      [] client_type = "openai.AsyncOpenAI" -> c.openai = "v1" /\ c.kind = "AsyncOpenAI"

\* the registered handler functions: the methods of the configuration they
\* return, {} where they return None
handler(name, c) ==
    CASE name = "openai_client" -> {"openai_chat_completions_create"}
      [] name = "async_openai_client" -> {"openai_chat_completions_acreate"}
      [] name = "openai_module" ->
            IF c.kind # "openai_module" THEN {}
            ELSE IF c.openai = "v0" THEN {"ChatCompletion.create", "Completion.create"}
            ELSE {"openai_module_v1"}
      [] name = "litellm_module" ->
            IF c.litellm /\ c.kind = "litellm_module"
            THEN {"litellm_completion", "litellm_acompletion"} ELSE {}
      [] name = "openai_agent_runner" ->
            IF c.agents /\ c.kind = "Runner"
            THEN {"openai_agent_runner_sync", "openai_agent_runner_async"} ELSE {}
      [] name = "langchain_runnable" ->
            (IF c.invoke THEN {"langchain_invoke"} ELSE {})
                \cup (IF c.ainvoke THEN {"langchain_ainvoke"} ELSE {})

\* what find_handler returns for descriptor d: the handler's configuration
\* with the descriptor's name and target path added
Integration(d, methods) == Ret(<<d.name, d.target_path>>, methods)

RECURSIVE find_handler_keeps_last(_, _, _)
RECURSIVE find_handler(_, _, _)

\* a loop that keeps the last accepting descriptor (mutant)
find_handler_keeps_last(integrations, i, c) ==
    IF i > Len(integrations) THEN NoneVal
    ELSE LET d == integrations[i]
             later == find_handler_keeps_last(integrations, i + 1, c)
         IN  IF later # NoneVal THEN later
             ELSE IF client_type_matches(d.client_type, c) /\ handler(d.name, c) # {}
             THEN Integration(d, handler(d.name, c))
             ELSE NoneVal

\* Registry.find_handler: the loop over self.integrations from index i on
find_handler(integrations, i, c) ==
    IF i > Len(integrations) THEN NoneVal
    ELSE LET d == integrations[i]
         IN  IF ~client_type_matches(d.client_type, c)
             THEN find_handler(integrations, i + 1, c)
             ELSE IF handler(d.name, c) # {}
             THEN Integration(d, handler(d.name, c))
             ELSE find_handler(integrations, i + 1, c)

\* one lookup in the registry
FindHandler(c) ==
    /\ last' = Op("find_handler", "none", 0, <<c>>, NoKw,
                  Env(FALSE, FALSE, FALSE, FALSE), NoLogArgs,
                  [NewRun(conversation_id) EXCEPT
                       !.out = Returned(find_handler(Integrations, 1, c))])
    /\ UNCHANGED <<logging_off, access_token, metadata, conversation_id, target, wrapped, calls, trace_processors,
                   trace, polling>>

NextRegistry == \E c \in ClientValues : FindHandler(c)

SpecRegistry == Init /\ [][NextRegistry]_vars

\* ------------------------------------------------- model name and tool list
\* dict.get(key, default): the default only where the key is absent
dict_get(d, key, default) == IF key \in DOMAIN d THEN d[key] ELSE default

\* The model_name / tools / tool_choice keys of what the
\* dynamic_llm_details_extractor of target t returns for the keyword
\* arguments of a call whose model / tools arguments are callModel /
\* callTools ("None" where the call has none).  The LangChain extractor sets
\* both keys to None whatever the call holds; the LiteLLM one copies them.
dynamic_llm_details(t, callModel, callTools) ==
    IF t \in LangchainTargets
    THEN [model_name |-> "None", tools |-> "None", tool_choice |-> "None"]
    ELSE [model_name |-> callModel, tools |-> callTools, tool_choice |-> "None"]

\* the static_model_name the installer hands to the wrapper factory:
\* wrap_langchain_invoke reads it off an instance's model / llm / client
\* attribute; every other installer passes None
static_model_name(t, hasModelAttribute) ==
    IF t = "runnable_instance" /\ hasModelAttribute THEN "static-model" ELSE "None"

\* every installer leaves static_tools None
static_tools == "None"

\* _extract_final_log_parameters: final_model_name and final_tools
final_parameter(dynamic_details, key, static) ==
    dict_get(dynamic_details, key, static)

\* The part of one wrapped call on a factory-made interceptor that computes
\* the model name and the tool list handed to _log_trace.
ExtractFinalLogParameters(callModel, callTools, hasModelAttribute) ==
    /\ target \in {"runnable_instance", "runnable_class", "litellm_acompletion"}
    /\ ~logging_off
    /\ LET details == dynamic_llm_details(target, callModel, callTools)
           static == static_model_name(target, hasModelAttribute)
           final == <<final_parameter(details, "model_name", static),
                      final_parameter(details, "tools", static_tools)>>
       IN  last' = Op("final_log_parameters", target, Len(wrapped),
                      <<callModel, callTools, static>>, NoKw,
                      Env(FALSE, FALSE, FALSE, FALSE), NoLogArgs,
                      [NewRun(conversation_id) EXCEPT !.out = Returned(Ret(final, {}))])
    /\ UNCHANGED <<logging_off, access_token, metadata, conversation_id, target, wrapped, calls, trace_processors,
                   trace, polling>>

NextLogParameters ==
    \/ \E off \in BOOLEAN, key \in BOOLEAN, server \in {"ok", "401", "403", "500", "unreachable"} :
          Login(off, key, server)
    \/ \E callModel \in {"None", "call-model"}, callTools \in {"None", "call-tools"},
          hasModelAttribute \in BOOLEAN :
          ExtractFinalLogParameters(callModel, callTools, hasModelAttribute)

SpecLogParameters == Init /\ [][NextLogParameters]_vars

\* ------------------------------------------------------- canonical section
\* the canonical fields of the trace payload
CanonicalKeys == {"input", "output", "expected", "scores"}

\* what a callback can return: something that is no dict (None, or the
\* callback raised), or a dict with any of the canonical keys
CallbackResults ==
    { cb \in [isDict : BOOLEAN, keys : SUBSET CanonicalKeys] : ~cb.isDict => cb.keys = {} }

\* the keyword arguments of the wrapped call that reach _log_trace as
\* **kwargs: everything the interceptor did not pop or name, for instance
\* invoke(input=...) on a runnable, or temperature
PassthroughKwargs == SUBSET {"input", "temperature"}

\* The canonical fields of the payload _log_trace builds: the literal (input,
\* output and scores None, expected the expected argument), overwritten by
\* the keys of a dict callback_result, then by payload.update(kwargs).
canonical_section(expected, callback_result, kwargs) ==
    [key \in CanonicalKeys |->
        IF key \in kwargs THEN "kwargs"
        ELSE IF callback_result.isDict /\ key \in callback_result.keys THEN "callback"
        ELSE IF key = "expected" THEN expected
        ELSE "None"]

\* One _log_trace call that passes the guards and sends its payload.
BuildPayload(expected, callback_result, kwargs) ==
    /\ ~_log_trace_skips(Env(FALSE, FALSE, FALSE, FALSE))
    /\ last' = Op("payload", target, Len(wrapped), <<expected, callback_result, kwargs>>,
                  NoKw, Env(FALSE, FALSE, FALSE, FALSE), NoLogArgs,
                  [NewRun(conversation_id) EXCEPT
                       !.events = <<"request">>,
                       !.out = Returned(Ret(<<canonical_section(expected, callback_result, kwargs)>>, {}))])
    /\ UNCHANGED <<logging_off, access_token, metadata, conversation_id, target, wrapped, calls, trace_processors,
                   trace, polling>>

NextPayload ==
    \/ \E off \in BOOLEAN, key \in BOOLEAN, server \in {"ok", "401", "403", "500", "unreachable"} :
          Login(off, key, server)
    \/ \E expected \in {"None", "exp"}, callback_result \in CallbackResults,
          kwargs \in PassthroughKwargs :
          BuildPayload(expected, callback_result, kwargs)

SpecPayload == Init /\ [][NextPayload]_vars

\* ---------------------------------------------------- interleaved tracing
\* _log_trace as several threads run it on one client: each attribute read
\* and each attribute assignment is one step, and the threads' steps
\* interleave in any order.

\* a read of a torn identifier: what a thread could see if the identifier
\* were overwritten in place instead of rebound (mutant)
read_conversation_id_torn(client_conversation_id) == client_conversation_id + 50

\* current_trace_conversation_id = self.conversation_id: the attribute holds
\* a reference to an immutable str, so a read yields a whole identifier
read_conversation_id(client_conversation_id) == client_conversation_id

\* the thread enters _log_trace and passes the two guards
BeginLogTrace(t, shape, force, explicit) ==
    /\ calls[t].pc = "idle"
    /\ ~_log_trace_skips(Env(FALSE, FALSE, FALSE, FALSE))
    /\ calls' = [calls EXCEPT ![t] =
                    [NoCall EXCEPT !.pc = "branch", !.first = conversation_id,
                         !.p = [LogArgs(shape, "none", EmptyMap, "none", "none", "none", force)
                                    EXCEPT !.conversation_id = explicit]]]
    /\ UNCHANGED <<logging_off, access_token, metadata, conversation_id, target, wrapped, last, trace_processors,
                   trace, polling>>

\* the if / elif / else on force_new_conversation and conversation_id, and
\* in the heuristic branch the first read of self.conversation_id
BranchLogTrace(t) ==
    /\ calls[t].pc = "branch"
    /\ LET p == calls[t].p
       IN  calls' = [calls EXCEPT ![t] =
                IF p.force THEN [@ EXCEPT !.pc = "new_conversation"]
                ELSE IF p.conversation_id # 0
                THEN [@ EXCEPT !.pc = "send", !.current = p.conversation_id]
                ELSE [@ EXCEPT !.current = read_conversation_id(conversation_id),
                               !.pc = IF is_likely_new_interaction(p.input)
                                      THEN "new_conversation" ELSE "send"]]
    /\ UNCHANGED <<logging_off, access_token, metadata, conversation_id, target, wrapped, last, trace_processors,
                   trace, polling>>

\* self.new_conversation(): the attribute is rebound to a fresh identifier
NewConversation(t) ==
    /\ calls[t].pc = "new_conversation"
    /\ conversation_id < MaxConv
    /\ conversation_id' = conversation_id + 1
    /\ calls' = [calls EXCEPT ![t].pc = "read"]
    /\ UNCHANGED <<logging_off, access_token, metadata, target, wrapped, last, trace_processors,
                   trace, polling>>

\* current_trace_conversation_id = self.conversation_id after new_conversation
ReadConversation(t) ==
    /\ calls[t].pc = "read"
    /\ calls' = [calls EXCEPT ![t].current = read_conversation_id(conversation_id),
                              ![t].pc = "send"]
    /\ UNCHANGED <<logging_off, access_token, metadata, conversation_id, target, wrapped, last, trace_processors,
                   trace, polling>>

\* the payload is built with the local identifier and sent
SendTrace(t) ==
    /\ calls[t].pc = "send"
    /\ calls' = [calls EXCEPT ![t].sent = calls[t].current,
                              ![t].final = conversation_id,
                              ![t].pc = "sent"]
    /\ UNCHANGED <<logging_off, access_token, metadata, conversation_id, target, wrapped, last, trace_processors,
                   trace, polling>>

\* _log_trace returns
ReturnLogTrace(t) ==
    /\ calls[t].pc = "sent"
    /\ calls' = [calls EXCEPT ![t] = NoCall]
    /\ UNCHANGED <<logging_off, access_token, metadata, conversation_id, target, wrapped, last, trace_processors,
                   trace, polling>>

\* the four branches of the identifier logic as <<input, force, explicit>>:
\* heuristic new conversation, continuation, forced, explicit identifier
CallKinds ==
    { <<"user1", FALSE, 0>>, <<"multi", FALSE, 0>>, <<"multi", TRUE, 0>>,
      <<"multi", FALSE, 100>> }

NextConcurrent ==
    \/ \E off \in BOOLEAN : Login(off, TRUE, "ok")
    \/ \E t \in Threads, k \in CallKinds : BeginLogTrace(t, k[1], k[2], k[3])
    \/ \E t \in Threads : BranchLogTrace(t)
    \/ \E t \in Threads : NewConversation(t)
    \/ \E t \in Threads : ReadConversation(t)
    \/ \E t \in Threads : SendTrace(t)
    \/ \E t \in Threads : ReturnLogTrace(t)

SpecConcurrent == Init /\ [][NextConcurrent]_vars

\* ------------------------------------------------------------ serialization
\* The kinds of value a trace can hold: a JSON primitive (or a dict / list
\* of them), a structured response object (has model_dump or dict), a
\* datetime, a uuid.UUID, an exception, any other object.
ValueKinds == {"primitive", "structured", "datetime", "uuid", "exception", "object"}

\* _log_trace's response_processed: model_dump() / dict() of a structured
\* response, any other response as it is
response_processed(response) ==
    IF response = "structured" THEN "primitive" ELSE response

\* "error": str(error) if error else None
error_text(error) == "primitive"

\* The values of the payload handed to _make_request as json=payload: the
\* input as it is, the processed response, the error text, the metadata
\* values as they are.
payload_values(input, response, error, metadata_value) ==
    {input, response_processed(response), error_text(error), metadata_value}

\* requests.request(method, url, json=payload): the body is encoded with
\* json.dumps and no default function, which raises on any value that is
\* no JSON primitive; the request goes out only after the encoding
json_encodes(values) == values \subseteq {"primitive"}

\* One _log_trace call that passes the guards, with values of the given
\* kinds.  _make_request calls requests.request outside its try block.
LogTraceValues(input, response, error, metadata_value) ==
    /\ ~_log_trace_skips(Env(FALSE, FALSE, FALSE, FALSE))
    /\ LET values == payload_values(input, response, error, metadata_value)
           r == NewRun(conversation_id)
           run == IF json_encodes(values)
                  THEN [r EXCEPT !.events = <<"request">>, !.lt = "data"]
                  ELSE [r EXCEPT !.out = Raised("TypeError")]
       IN  last' = Op("log_trace_values", target, Len(wrapped),
                      <<input, response, error, metadata_value>>, NoKw,
                      Env(FALSE, FALSE, FALSE, FALSE), NoLogArgs, run)
    /\ UNCHANGED <<logging_off, access_token, metadata, conversation_id, target, wrapped, calls, trace_processors,
                   trace, polling>>

NextSerialize ==
    \/ \E off \in BOOLEAN, key \in BOOLEAN, server \in {"ok", "401", "403", "500", "unreachable"} :
          Login(off, key, server)
    \/ \E input \in ValueKinds, response \in ValueKinds, error \in {"primitive", "exception"},
          metadata_value \in ValueKinds :
          LogTraceValues(input, response, error, metadata_value)

SpecSerialize == Init /\ [][NextSerialize]_vars

\* ------------------------------------------------------- agent trace hook
\* register_trace_processor: a new RagMetricsTraceProcessor is created and
\* handed to add_trace_processor, which appends it to the processors the
\* agents tracing system calls; nothing looks for one already registered.
\* Without agents.tracing nothing is registered.
register_trace_processor(registered, tracingAvailable) ==
    IF tracingAvailable THEN registered + 1 ELSE registered

\* monitor(Runner): find_integration matches openai_agent_runner and calls
\* the descriptor's register_trace_processor once; monitor returns the
\* client it was given.
MonitorRunner(tracingAvailable) ==
    /\ trace_processors < MaxProcessors
    /\ trace_processors' = register_trace_processor(trace_processors, tracingAvailable)
    /\ last' = Op("monitor_runner", target, Len(wrapped), <<"Runner">>, NoKw,
                  Env(FALSE, FALSE, FALSE, FALSE), NoLogArgs,
                  [NewRun(conversation_id) EXCEPT !.out = Returned(Ret(<<"Runner">>, {})),
                                                  !.events = IF tracingAvailable
                                                             THEN <<"register_trace_processor">>
                                                             ELSE <<>>])
    /\ UNCHANGED <<logging_off, access_token, metadata, conversation_id, target, wrapped, calls,
                   trace, polling>>

\* The agents tracing system hands one finished trace to every registered
\* processor.  process_trace returns at once when logging is off; otherwise
\* it calls _log_trace without the required arguments contexts, expected and
\* tools, the TypeError is caught by its except clause, and nothing is sent.
ProcessTrace ==
    /\ trace_processors > 0
    /\ last' = Op("process_trace", target, Len(wrapped), <<>>, NoKw,
                  Env(FALSE, FALSE, FALSE, FALSE), NoLogArgs,
                  [NewRun(conversation_id) EXCEPT
                       !.events = [i \in 1..trace_processors |->
                                      IF logging_off THEN "skip" ELSE "TypeError"]])
    /\ UNCHANGED <<logging_off, access_token, metadata, conversation_id, target, wrapped, calls,
                   trace_processors, trace, polling>>

NextAgents ==
    \/ \E off \in BOOLEAN, key \in BOOLEAN, server \in {"ok", "401", "403", "500", "unreachable"} :
          Login(off, key, server)
    \/ \E tracingAvailable \in BOOLEAN : MonitorRunner(tracingAvailable)
    \/ ProcessTrace

SpecAgents == Init /\ [][NextAgents]_vars

\* ------------------------------------------------------------------- Trace
\* Trace.__setattr__(key, value) on the object tr.  Of the attributes only
\* id ("unset" before its first assignment, "None", or "id") and edit_mode
\* are followed; value matters for these two keys only.
Trace__setattr__(tr, key, value) ==
    LET marked == IF key # "edit_mode" /\ tr.id \notin {"unset", "None"}
                  THEN [tr EXCEPT !.edit_mode = TRUE] ELSE tr
    IN  CASE key = "id" -> [marked EXCEPT !.id = value]
          [] key = "edit_mode" -> [marked EXCEPT !.edit_mode = value]
          [] OTHER -> marked

\* Trace.__init__(id=id, ..., **kwargs): the assignments in their order;
\* extra: whether kwargs holds a key that is no attribute yet
Trace__init__(id, extra) ==
    LET t1 == Trace__setattr__(NoTrace, "id", id)
        t2 == Trace__setattr__(t1, "created_at", "None")
        t3 == Trace__setattr__(t2, "conversation_id", "None")
        t4 == Trace__setattr__(t3, "edit_mode", FALSE)
    IN  IF extra THEN Trace__setattr__(t4, "extra", "None") ELSE t4

\* Trace.from_dict(data)
Trace_from_dict(id, extra) ==
    Trace__setattr__(Trace__init__(id, extra), "edit_mode", FALSE)

\* RagMetricsObject.download for cls = Trace, from the answer of the server
\* on: the object is built by from_dict, then obj.id is assigned from the
\* data's id, or from the requested id when the data has none
Trace_download(id, extra, requestedById) ==
    LET obj == Trace_from_dict(id, extra)
    IN  IF id # "None" THEN Trace__setattr__(obj, "id", id)
        ELSE IF requestedById THEN Trace__setattr__(obj, "id", "id")
        ELSE obj

\* Trace.to_dict()["id"]
Trace_to_dict_id(tr) == IF tr.edit_mode THEN tr.id ELSE "None"

\* the endpoint RagMetricsObject.save chooses for a Trace
save_endpoint(tr) ==
    IF ~tr.edit_mode THEN "/api/client/logtrace/" ELSE "/api/client/trace/save/"

TraceOp(op, args, out) ==
    Op(op, target, Len(wrapped), args, NoKw, Env(FALSE, FALSE, FALSE, FALSE), NoLogArgs,
       [NewRun(conversation_id) EXCEPT !.out = out])

\* the program constructs a Trace
ConstructTrace(id, extra) ==
    /\ trace' = Trace__init__(id, extra)
    /\ last' = TraceOp("Trace", <<id>>, Returned(NoneVal))
    /\ UNCHANGED <<logging_off, access_token, metadata, conversation_id, target, wrapped, calls,
                   trace_processors, polling>>

\* the program builds a Trace with from_dict
FromDictTrace(id, extra) ==
    /\ trace' = Trace_from_dict(id, extra)
    /\ last' = TraceOp("from_dict", <<id>>, Returned(NoneVal))
    /\ UNCHANGED <<logging_off, access_token, metadata, conversation_id, target, wrapped, calls,
                   trace_processors, polling>>

\* the program downloads a Trace (the server answers with the trace's data)
DownloadTrace(id, extra, requestedById) ==
    /\ access_token
    /\ trace' = Trace_download(id, extra, requestedById)
    /\ last' = TraceOp("download_trace", <<id>>, Returned(NoneVal))
    /\ UNCHANGED <<logging_off, access_token, metadata, conversation_id, target, wrapped, calls,
                   trace_processors, polling>>

\* the program assigns an attribute of the Trace
AssignTrace(key, value) ==
    /\ trace.id # "unset"
    /\ trace' = Trace__setattr__(trace, key, value)
    /\ last' = TraceOp("setattr", <<key, trace.id>>, Returned(Ret(<<trace.edit_mode>>, {})))
    /\ UNCHANGED <<logging_off, access_token, metadata, conversation_id, target, wrapped, calls,
                   trace_processors, polling>>

\* the program saves the Trace and the server answers with an id: the
\* endpoint and the id of the payload, then self.id = new_id
SaveTrace ==
    /\ trace.id # "unset"
    /\ trace' = Trace__setattr__(trace, "id", "id")
    /\ last' = TraceOp("save_trace", <<save_endpoint(trace), Trace_to_dict_id(trace), trace.id>>,
                       Returned(Ret(<<trace.edit_mode>>, {})))
    /\ UNCHANGED <<logging_off, access_token, metadata, conversation_id, target, wrapped, calls,
                   trace_processors, polling>>

NextTrace ==
    \/ \E off \in BOOLEAN : Login(off, TRUE, "ok")
    \/ \E id \in {"None", "id"}, extra \in BOOLEAN : ConstructTrace(id, extra)
    \/ \E id \in {"None", "id"}, extra \in BOOLEAN : FromDictTrace(id, extra)
    \/ \E id \in {"None", "id"}, extra \in BOOLEAN, requestedById \in BOOLEAN :
          DownloadTrace(id, extra, requestedById)
    \/ \E a \in {<<"id", "None">>, <<"id", "id">>, <<"output", "None">>} :
          AssignTrace(a[1], a[2])
    \/ \E value \in BOOLEAN : AssignTrace("edit_mode", value)
    \/ SaveTrace

SpecTrace == Init /\ [][NextTrace]_vars

\* --------------------------------------------------------- Experiment.run
\* What one poll of the progress endpoint meets: the request fails
\* (connection error, timeout, error status: a RequestException), or the
\* server reports the state of the run.
PollOutcomes == {"fail", "RUNNING", "COMPLETED", "SUCCESS", "FAILED"}

\* a loop that never resets the count (mutant)
retry_count_after_without_reset(outcome, retry_count) ==
    IF outcome = "fail" THEN retry_count + 1 ELSE retry_count

\* retry_count after one pass of the loop: incremented in the except
\* clause, set to 0 at the end of a try block that neither returned nor raised
retry_count_after(outcome, retry_count) ==
    IF outcome = "fail" THEN retry_count + 1 ELSE 0

\* Experiment.run up to the loop: run_async started the experiment or the
\* answer's status is not "running"
StartRun(started) ==
    /\ polling.pc = "idle"
    /\ polling' = [NotRunning EXCEPT !.pc = IF started THEN "polling" ELSE "not_started"]
    /\ last' = Op("run", target, Len(wrapped), <<>>, NoKw, Env(FALSE, FALSE, FALSE, FALSE),
                  NoLogArgs,
                  [NewRun(conversation_id) EXCEPT
                       !.out = IF started THEN Returned(NoneVal) ELSE Raised("Exception")])
    /\ UNCHANGED <<logging_off, access_token, metadata, conversation_id, target, wrapped, calls,
                   trace_processors, trace>>

\* one pass of the while loop
Poll(outcome) ==
    /\ polling.pc = "polling"
    /\ Len(polling.history) < MaxPolls
    /\ LET count == retry_count_after(outcome, polling.retry_count)
           pc == CASE outcome = "FAILED" -> "failed"
                   [] outcome \in {"COMPLETED", "SUCCESS"} -> "returned"
                   [] outcome = "fail" /\ count > 3 -> "gave_up"
                   [] OTHER -> "polling"
       IN  /\ polling' = [pc |-> pc,
                          retry_count |-> IF pc \in {"failed", "returned"}
                                          THEN polling.retry_count ELSE count,
                          history |-> Append(polling.history, outcome)]
           /\ last' = Op("poll", target, Len(wrapped), <<outcome>>, NoKw,
                         Env(FALSE, FALSE, outcome = "fail", FALSE), NoLogArgs,
                         [NewRun(conversation_id) EXCEPT
                              !.out = IF pc \in {"failed", "gave_up"} THEN Raised("Exception")
                                      ELSE Returned(NoneVal)])
    /\ UNCHANGED <<logging_off, access_token, metadata, conversation_id, target, wrapped, calls,
                   trace_processors, trace>>

\* run has ended and the program may call it again
EndRun ==
    /\ polling.pc \in {"returned", "failed", "gave_up", "not_started"}
    /\ polling' = NotRunning
    /\ last' = Op("run_ended", target, Len(wrapped), <<>>, NoKw,
                  Env(FALSE, FALSE, FALSE, FALSE), NoLogArgs, NewRun(conversation_id))
    /\ UNCHANGED <<logging_off, access_token, metadata, conversation_id, target, wrapped, calls,
                   trace_processors, trace>>

NextExperiment ==
    \/ \E started \in BOOLEAN : StartRun(started)
    \/ \E outcome \in PollOutcomes : Poll(outcome)
    \/ EndRun

SpecExperiment == Init /\ [][NextExperiment]_vars

\* ================================================================== claims
\* the last operation was a call through at least one interceptor
WrappedCall == last.op = "call" /\ last.depth >= 1

\* the instrumentation client was enabled and logged in when it was made
Enabled == ~last.e.off /\ last.e.token

HasEvent(x) == \E i \in DOMAIN last.run.events : last.run.events[i] = x

\* the installers named by the error-handling contract: the generic sync and
\* async wrapper, the OpenAI chat create wrapper and the LiteLLM wrapper
ContractTargets == Targets \ {"legacy_completions"}

\* the install sites of the generic wrapper factory: bound onto one instance,
\* bound onto a class, replacing a free function
FactoryTargets == {"runnable_instance", "runnable_class", "litellm_acompletion"}

\* C1: when the original delegate raises E during a wrapped call, the wrapped
\* call raises exactly E to the caller; it never returns normally and never
\* raises another exception.
C1_DelegateExceptionReachesCaller ==
    (WrappedCall /\ last.t \in ContractTargets /\ last.e.raises)
        => last.run.out = Raised("E")

\* C2: when the delegate raises on an enabled, logged-in client, a trace
\* carrying the error is sent first and the exception reaches the caller
\* only after that.
C2_TraceBeforeRaise ==
    (WrappedCall /\ last.t \in ContractTargets /\ Enabled /\ last.e.raises)
        => LET ev == last.run.events
           IN  /\ last.run.out = Raised("E")
               /\ ev[Len(ev)] = "raise"
               /\ \E i \in 1..(Len(ev) - 1) : ev[i] = "request"
               /\ \E j \in DOMAIN last.run.traces : last.run.traces[j].error = "E"

\* C3: for the three install sites, a wrapped call with arguments A (no
\* instrumentation-only parameter among them, no failure inside the
\* interceptor) invokes the original once with exactly A, the receiver
\* passed once, and returns what the original returns for A.
C3_PassThrough ==
    (WrappedCall /\ last.t \in FactoryTargets /\ ~last.e.raises /\ ~last.e.exRaises
                 /\ last.kw.keys \cap RM_KEYS = {})
        => /\ last.run.dcalls = <<[args |-> Received(last.t, last.args), keys |-> last.kw.keys]>>
           /\ last.run.out = Returned(Ret(Received(last.t, last.args), last.kw.keys))

\* C4: the original delegate is never invoked with metadata, contexts,
\* expected or force_new_conversation among its keyword arguments.
C4_InstrumentationKeysStripped ==
    WrappedCall
        => \A i \in DOMAIN last.run.dcalls : last.run.dcalls[i].keys \cap RM_KEYS = {}

\* C5: while logging_off is true a wrapped call runs no extractor, no
\* callback and no request, and returns the delegate's value unchanged.
C5_DisabledIsNoOp ==
    (WrappedCall /\ last.e.off)
        => /\ ~HasEvent("input_extractor") /\ ~HasEvent("dynamic_extractor")
           /\ ~HasEvent("output_extractor")
           /\ ~HasEvent("callback")
           /\ ~HasEvent("request")
           /\ ~last.e.raises =>
                 /\ Len(last.run.dcalls) = 1
                 /\ last.run.out = Returned(Ret(last.run.dcalls[1].args, last.run.dcalls[1].keys))

\* C6: after monitor(client) on a client matched by an integration, an
\* interceptor is installed for the declared method the target exposes, so
\* that the next call through the client, on a logged-in enabled
\* instrumentation client whose collector answers, emits exactly one trace.
C6_MonitorInstallsInterceptor ==
    [][ /\ last'.op = "monitor" => wrapped' # <<>>
        /\ (last.op = "monitor" /\ wrapped = <<>> /\ last'.op = "call"
              /\ ~last'.e.off /\ last'.e.token /\ ~last'.e.netFail /\ ~last'.e.raises)
             => Len(last'.run.traces) = 1 ]_vars

C8_ReinstallationEmitsOneTrace ==
    (last.op = "call" /\ Enabled) => Len(last.run.traces) <= 1

\* additional_llm_metadata of _openai_chat_dynamic_llm_details_extractor:
\* the OpenAI parameters of the call that are metadata of the dynamic layer
_openai_chat_dynamic_llm_details_extractor(kw) ==
    [k \in kw.keys \cap {"frequency_penalty", "logit_bias", "logprobs", "max_tokens",
                         "n", "presence_penalty", "response_format", "seed", "stop",
                         "stream", "temperature", "top_p", "user"} |-> 2]

\* the dynamic metadata layer of a call, by integration
DynamicLayer(t, kw) ==
    IF t \in {"openai_completions", "legacy_completions"}
    THEN _openai_chat_dynamic_llm_details_extractor(kw)
    ELSE dynamic_llm_details_extractor(t, kw)

\* C9: the metadata of an emitted trace is the merge of client-level
\* metadata, then the dynamic metadata of the call, then the per-call user
\* metadata, a later layer winning on every collision.
C9_MetadataPrecedence ==
    (WrappedCall /\ last.depth = 1 /\ last.t \in ContractTargets)
        => \A j \in DOMAIN last.run.traces :
              last.run.traces[j].metadata =
                  Merge(Merge(last.e.meta, DynamicLayer(last.t, last.kw)), last.kw.meta)

\* C10: _log_trace called while logging is off or without a credential
\* returns None and sends no request.
C10_NoEmissionWhenDisabledOrLoggedOut ==
    (last.op = "log_trace" /\ (last.e.off \/ ~last.e.token))
        => /\ last.run.out = Returned(NoneVal)
           /\ last.run.lt = "None"
           /\ last.run.traces = <<>>
           /\ ~HasEvent("request")

\* C10 witness: _log_trace was called on an enabled client without a
\* credential, and nothing was sent
C10_Witness ==
    /\ last.op = "log_trace" /\ ~last.e.off /\ ~last.e.token
    /\ last.run.traces = <<>>

\* a step of the interceptor itself failed during the last call: the output
\* extractor raised on the original's result, or the request of the trace
\* emission failed
InternalFailure ==
    \/ output_extractor_raises(last.t, last.e, [out |-> Returned(NoneVal)]) /\ ~last.e.off /\ ~last.e.raises
    \/ last.e.netFail /\ HasEvent("request")

\* C11: an exception raised inside an interceptor by an extractor or by the
\* trace emission never reaches the caller: the caller receives the value
\* the delegate returned, or the delegate's own exception.
C11_InternalFailuresSwallowed ==
    (WrappedCall /\ last.t \in ContractTargets /\ InternalFailure)
        => IF last.e.raises
           THEN last.run.out = Raised("E")
           ELSE /\ last.run.dcalls # <<>>
                /\ last.run.out = Returned(Ret(last.run.dcalls[1].args, last.run.dcalls[1].keys))
\* C12: when the user callback raises during a wrapped call on an enabled,
\* logged-in client, the caller still gets the delegate's outcome, the trace
\* is still emitted, and it carries no callback-derived canonical fields.
C12_CallbackFailureSwallowed ==
    (WrappedCall /\ last.t \in ContractTargets /\ Enabled
                 /\ last.e.cbRaises /\ HasEvent("callback"))
        => /\ last.run.out = IF last.e.raises THEN Raised("E")
                             ELSE Returned(Ret(last.run.dcalls[1].args, last.run.dcalls[1].keys))
           /\ last.run.traces # <<>>
           /\ \A j \in DOMAIN last.run.traces : last.run.traces[j].canonical = "none"

\* C12 witness: a wrapped call whose callback ran and raised returned the
\* delegate's value and sent one trace without canonical fields
C12_Witness ==
    /\ WrappedCall /\ last.depth = 1 /\ Enabled
    /\ last.e.cbRaises /\ HasEvent("callback")
    /\ last.run.out.kind = "return" /\ ~last.run.out.val.isNone
    /\ Len(last.run.traces) = 1 /\ last.run.traces[1].canonical = "none"
\* the last operation was a _log_trace call that sent a trace
TracedCall == last.op = "log_trace" /\ Len(last.run.traces) = 1

\* C13: a traced call with force_new_conversation replaces the client's
\* conversation identifier by a fresh one, whatever the input shape and
\* whatever explicit identifier is passed, and the trace carries it.
C13_ForceStartsNewConversation ==
    (TracedCall /\ last.p.force)
        => /\ conversation_id > last.e.conv
           /\ conversation_id # last.p.conversation_id
           /\ last.run.traces[1].conversation_id = conversation_id

\* C13 witness: a forced call whose input would otherwise continue the
\* conversation, and which also passed an explicit identifier
C13_Witness ==
    /\ TracedCall /\ last.p.force /\ last.p.input = "multi"
    /\ last.p.conversation_id # 0
    /\ conversation_id = last.e.conv + 1

\* C14: without force and without explicit identifier, a traced call whose
\* input is one user-role message without tool markers, or a string,
\* replaces the client's identifier by a fresh one, carried by the trace.
C14_HeuristicNew ==
    (TracedCall /\ ~last.p.force /\ last.p.conversation_id = 0
                /\ last.p.input \in {"user1", "str"})
        => /\ conversation_id > last.e.conv
           /\ last.run.traces[1].conversation_id = conversation_id

\* C14 witness: such a call with a string as input
C14_Witness ==
    /\ TracedCall /\ ~last.p.force /\ last.p.conversation_id = 0
    /\ last.p.input = "str" /\ conversation_id = last.e.conv + 1

C16_ExplicitIdentifier ==
    (TracedCall /\ ~last.p.force /\ last.p.conversation_id # 0)
        => /\ last.run.traces[1].conversation_id = last.p.conversation_id
           /\ conversation_id = last.e.conv

\* C16 witness: such a call whose input alone would start a new conversation
C16_Witness ==
    /\ TracedCall /\ ~last.p.force /\ last.p.conversation_id # 0
    /\ last.p.input = "user1"
    /\ last.run.traces[1].conversation_id # last.e.conv
    /\ conversation_id = last.e.conv
\* the operation recorded in op emitted exactly one trace
OneTrace(op) == Len(op.run.traces) = 1

\* C17: in a tool-calling flow on an OpenAI client (a wrapped LLM call with
\* one user message, then a call of a function decorated with
\* trace_function_call, then a wrapped LLM call with the list of several
\* messages) all emitted traces carry the same conversation identifier:
\* each step of the flow that emits a trace does so under the identifier of
\* the step before it.
C17_ToolFlowSharesConversation ==
    [][ /\ (/\ last.op = "call" /\ last.kw.input = "user1" /\ OneTrace(last)
            /\ target = "openai_completions"
            /\ last'.op = "trace_function_call" /\ OneTrace(last'))
           => last'.run.traces[1].conversation_id = last.run.traces[1].conversation_id
        /\ (/\ last.op = "trace_function_call" /\ OneTrace(last)
            /\ target = "openai_completions"
            /\ last'.op = "call" /\ last'.kw.input = "multi" /\ OneTrace(last'))
           => last'.run.traces[1].conversation_id = last.run.traces[1].conversation_id
      ]_vars
\* the errors of the package: RagMetricsError and its subclasses
TypedErrors ==
    {"RagMetricsError", "RagMetricsConfigError", "RagMetricsAuthError", "RagMetricsAPIError"}

\* C18: every failed login (missing key, HTTP 401/403, another API error,
\* connection error) raises a typed error and leaves the client without
\* access credential and with logging_off true.
C18_FailedLoginDisables ==
    (last.op = "login" /\ last.run.out.kind = "raise")
        => /\ last.run.out.exc \in TypedErrors
           /\ ~access_token
           /\ logging_off
\* C19: monitor never raises, whether no integration matches, the path to
\* the target cannot be resolved, or a declared method is absent or its
\* installer fails; it returns the client object that was passed in.
C19_MonitorNeverRaises ==
    last.op \in {"monitor", "client_monitor"}
        => last.run.out = Returned(Ret(last.args, {}))
\* C20: while the client holds no access token, saving a well-formed object
\* and downloading one by id or name each raise RagMetricsAuthError, and no
\* request is sent.
C20_NoCredentialNoRequest ==
    /\ last.op \in {"save", "download"}
    /\ ~last.e.token
    /\ last.args[1] = "typed"
    /\ last.args[2] \in {"serializes", "id", "name", "both"}
    => /\ last.run.out = Raised("RagMetricsAuthError")
       /\ ~HasEvent("request")

\* descriptor i of the registry accepts the value c
Accepts(i, c) ==
    /\ client_type_matches(Integrations[i].client_type, c)
    /\ handler(Integrations[i].name, c) # {}

\* C21: a lookup returns the integration of the first descriptor, in
\* registration order, that accepts the value, and None when none accepts
\* it; a later descriptor is never returned when an earlier one accepts.
C21_FirstMatchWins ==
    last.op = "find_handler" =>
        LET c == last.args[1]
            found == last.run.out.val
        IN  IF \E i \in DOMAIN Integrations : Accepts(i, c)
            THEN \E i \in DOMAIN Integrations :
                    /\ Accepts(i, c)
                    /\ \A j \in 1..(i - 1) : ~Accepts(j, c)
                    /\ found = Integration(Integrations[i], handler(Integrations[i].name, c))
            ELSE found = NoneVal

\* a value that two descriptors accept (an OpenAI client that also has
\* invoke or ainvoke) was looked up and the earlier descriptor was returned
C21_Witness ==
    /\ last.op = "find_handler"
    /\ \E i, j \in DOMAIN Integrations : i < j /\ Accepts(i, last.args[1]) /\ Accepts(j, last.args[1])
    /\ last.run.out.val.args[1] = "openai_client"

\* C22: one call through a wrapped method invokes the original delegate
\* exactly once, whether it returns or raises and whether or not extraction,
\* the callback or the trace emission fails.
C22_DelegateCalledOnce ==
    WrappedCall => Len(last.run.dcalls) = 1

\* C23: after a successful login (off = false, key accepted by the server)
\* the client is enabled, whatever logins came before: the access token is
\* set and logging_off is false.
C23_SuccessfulLoginEnables ==
    (last.op = "login" /\ last.args = <<"key">> /\ last.run.out.kind = "return")
        => access_token /\ ~logging_off

\* C24: the model name and tool list handed to the trace are the values the
\* dynamic-detail extractor obtained from the call where it obtained any,
\* and otherwise the static value captured at installation; a static value
\* is never dropped merely because the call supplied none.
C24_DynamicOverStatic ==
    last.op = "final_log_parameters" =>
        LET details == dynamic_llm_details(last.t, last.args[1], last.args[2])
            final == last.run.out.val.args
        IN  /\ final[1] = IF details.model_name # "None" THEN details.model_name
                          ELSE last.args[3]
            /\ final[2] = IF details.tools # "None" THEN details.tools
                          ELSE static_tools

\* C25: in every emitted payload a canonical field (input, output, expected,
\* scores) is populated only if the callback result supplies its key, and
\* then holds the callback's value; neither the call's own arguments nor
\* keyword arguments passed through set one.
C25_CanonicalOnlyFromCallback ==
    last.op = "payload" =>
        \A key \in CanonicalKeys :
            last.run.out.val.args[1][key] =
                IF last.args[2].isDict /\ key \in last.args[2].keys THEN "callback"
                ELSE "None"

\* C26: when _log_trace calls of several threads interleave on one client,
\* every trace sent carries either the explicit identifier of its call or
\* an identifier that was the client's current one at some moment of the
\* call.  Identifiers are numbered in the order they become current, so the
\* identifiers current during a call are those from the one at its start
\* to the one at its send.
C26_InterleavedIdentifiers ==
    \A t \in Threads :
        calls[t].pc = "sent" =>
            IF ~calls[t].p.force /\ calls[t].p.conversation_id # 0
            THEN calls[t].sent = calls[t].p.conversation_id
            ELSE calls[t].first <= calls[t].sent /\ calls[t].sent <= calls[t].final

\* a call ran new_conversation, another thread rebound the identifier before
\* the call read it back, and the call sent the other thread's identifier:
\* one conversation boundary is missing
C26_Witness ==
    \E t \in Threads :
        /\ calls[t].pc = "sent"
        /\ calls[t].p.force
        /\ calls[t].sent >= calls[t].first + 2

\* C27: when the input, the response or another value of a trace is no JSON
\* primitive, the emission does not raise on serialization and the request
\* to the collector is still sent.
C27_SerializationNeverRaises ==
    last.op = "log_trace_values"
        => last.run.out.kind = "return" /\ HasEvent("request")

\* C28: the telemetry hook is invoked once per monitor call on a matching
\* client, and after any number of monitor calls at most one RagMetrics
\* trace processor is registered, so one agent trace reaches at most one
\* RagMetrics processor.
C28_HookIdempotent ==
    /\ trace_processors <= 1
    /\ last.op = "monitor_runner" => Len(last.run.events) <= 1
    /\ last.op = "process_trace" => Len(last.run.events) <= 1

\* C29: a Trace has edit_mode false right after it is constructed or built
\* by from_dict or download; an assignment turns edit_mode true exactly when
\* its key is not edit_mode and the id is not None; a trace with edit_mode
\* false is saved through the logtrace endpoint without id, one with
\* edit_mode true through the trace save endpoint with its id.
C29_EditMode ==
    /\ last.op \in {"Trace", "from_dict", "download_trace"} => ~trace.edit_mode
    /\ (last.op = "setattr" /\ last.args[1] # "edit_mode")
          => trace.edit_mode = (last.run.out.val.args[1] \/ last.args[2] # "None")
    /\ last.op = "save_trace" =>
          IF last.run.out.val.args[1]
          THEN last.args[1] = "/api/client/trace/save/" /\ last.args[2] = last.args[3]
          ELSE last.args[1] = "/api/client/logtrace/" /\ last.args[2] = "None"

\* the last n polls all failed
FailedStreak(n) ==
    /\ Len(polling.history) >= n
    /\ \A i \in (Len(polling.history) - n + 1)..Len(polling.history) :
          polling.history[i] = "fail"

\* C30: the progress loop gives up only after more than three consecutive
\* failed requests, so failures separated by a successful poll never abort
\* the run; and the loop ends exactly when a poll reports COMPLETED, SUCCESS
\* or FAILED, or when it gives up.
C30_PollingGivesUpAfterFourFailures ==
    LET n == Len(polling.history)
    IN  /\ polling.pc = "gave_up" <=> FailedStreak(4)
        /\ polling.pc = "returned" <=> (n > 0 /\ polling.history[n] \in {"COMPLETED", "SUCCESS"})
        /\ polling.pc = "failed" <=> (n > 0 /\ polling.history[n] = "FAILED")
        /\ \A i \in 1..(n - 1) :
              /\ polling.history[i] \notin {"COMPLETED", "SUCCESS", "FAILED"}
              /\ ~(i >= 4 /\ \A j \in (i - 3)..i : polling.history[j] = "fail")

\* the loop gave up after six polls of which the first failed and the second
\* succeeded: the early failure did not count towards the four
C30_Witness ==
    /\ polling.pc = "gave_up"
    /\ Len(polling.history) = 6
    /\ polling.history[1] = "fail"
    /\ polling.history[2] = "RUNNING"

====
